---- MODULE Spec2Model ----
(***************************************************************************)
(* Model of the crawler session layer: models/crawlermodel.py              *)
(* (CrawlerModel) and elastic/get_documents.py.                            *)
(*                                                                         *)
(* Python strings are sequences of one-character strings, so that the      *)
(* substring test `a in b`, str.split(';') and ';'.join(l) are computed    *)
(* as Python computes them.  A stored field is an ElasticSearch field      *)
(* value: <<>> when the document has no such field, <<s>> when it holds    *)
(* the string s.                                                           *)
(***************************************************************************)
EXTENDS Integers, Sequences, FiniteSets, TLC

(***************************************************************************)
(* Bounds                                                                  *)
(***************************************************************************)
\* longest id batch handed to setPagesTag / setTermsTag
MaxBatch == 2

(***************************************************************************)
(* Strings                                                                 *)
(***************************************************************************)
Relevant == <<"R", "e", "l", "e", "v", "a", "n", "t">>
Irrelevant == <<"I", "r", "r", "e", "l", "e", "v", "a", "n", "t">>
Rel == <<"R", "e", "l">>
NotRelevant == <<"N", "o", "t", "R", "e", "l", "e", "v", "a", "n", "t">>
EmptyStr == <<>>
Delim == ";"

\* Python `sub in s` for two strings: substring test
StrIn(sub, s) ==
  \E i \in 0..(Len(s) - Len(sub)) : SubSeq(s, i + 1, i + Len(sub)) = sub

\* index of the first Delim in s, 0 when there is none
FirstDelim(s) ==
  IF \A i \in 1..Len(s) : s[i] # Delim THEN 0
  ELSE CHOOSE i \in 1..Len(s) : s[i] = Delim /\ \A j \in 1..(i - 1) : s[j] # Delim

\* Python s.split(';'): ''.split(';') is [''], never []
RECURSIVE split(_)
split(s) ==
  IF \A i \in 1..Len(s) : s[i] # Delim THEN <<s>>
  ELSE <<SubSeq(s, 1, FirstDelim(s) - 1)>> \o split(SubSeq(s, FirstDelim(s) + 1, Len(s)))

\* Python ';'.join(tags): ';'.join([]) is ''
RECURSIVE join(_)
join(tags) ==
  IF tags = <<>> THEN EmptyStr
  ELSE IF Len(tags) = 1 THEN tags[1]
  ELSE tags[1] \o <<Delim>> \o join(Tail(tags))

\* Python `x in l` for a list l
ListIn(x, l) == \E i \in 1..Len(l) : l[i] = x

\* Python l.remove(x) when x is in l: drops the first occurrence
ListRemove(l, x) ==
  LET i == CHOOSE k \in 1..Len(l) : l[k] = x /\ \A j \in 1..(k - 1) : l[j] # x
  IN SubSeq(l, 1, i - 1) \o SubSeq(l, i + 1, Len(l))

\* the labels of a sequence as a set
Elems(l) == {l[i] : i \in 1..Len(l)}

NoDup(l) == \A i, j \in 1..Len(l) : l[i] = l[j] => i = j

(***************************************************************************)
(* Input domains                                                           *)
(***************************************************************************)
Datasets == {"d1", "d2"}
\* the pages and terms whose tags the explored tag operations touch
URLSeq == <<"A", "B">>
TermSeq == << <<"a">>, <<"a", "b">> >>
\* the page documents of a dataset, most recently retrieved first, and the
\* terms a dataset may hold a document for
PagesByRecency == <<"C", "B", "A">>
URLs == Elems(PagesByRecency)
TermIds == Elems(TermSeq)
Labels == {Relevant, Rel}
NoField == <<>>

\* id batches of length 0..MaxBatch over the ids listed in idseq.  The tag
\* loops treat an id the same at every position of the batch, so batches
\* are enumerated up to reordering: ids appear in the order of idseq.
Batches(idseq) ==
  UNION {{[i \in 1..n |-> idseq[f[i]]] :
            f \in {g \in [1..n -> 1..Len(idseq)] :
                     \A i, j \in 1..n : i <= j => g[i] <= g[j]}} :
         n \in 0..MaxBatch}

VARIABLES
  activeCrawlerIndex,  \* self._activeCrawlerIndex
  filter,              \* self._filter
  pagesCap,            \* self._pagesCap
  store,               \* the backend: store[index][doctype][id] is the tag field
  op,                  \* the last operation and its arguments
  pre,                 \* the backend as it was when the last operation started
  calls,               \* the gateway writes issued by the last operation, in order
  err,                 \* the exception the last operation raised, "none" if none
  ret,                 \* the value the last operation returned
  requests             \* the tag calls that run side by side, and how far each is

vars == <<activeCrawlerIndex, filter, pagesCap, store, op, pre, calls, err, ret, requests>>

session == <<activeCrawlerIndex, filter, pagesCap>>

None == "None"
NoRet == <<>>

\* the server threads that may run a tag call side by side with other calls
Threads == {"t1", "t2"}

\* a thread that runs no call
Idle == [pc |-> "idle"]

(***************************************************************************)
(* elastic/get_documents.py                                                *)
(***************************************************************************)
\* get_documents(terms, term_field, ['tag'], index, doctype): the dict it
\* returns for a non-empty batch; a hit without the requested field carries
\* no 'fields', so only documents holding a tag field get a record
get_documents(terms, docs) ==
  [t \in {x \in Elems(terms) : x \in DOMAIN docs /\ docs[x] # NoField}
     |-> [tag |-> docs[t][1]]]

\* `results` is bound only inside `if len(terms) > 0`
get_documents_raises(terms) == Len(terms) = 0

(***************************************************************************)
(* The gateway writes (elastic/add_documents.py)                           *)
(***************************************************************************)
RECURSIVE WriteEntries(_, _)
WriteEntries(docs, entries) ==
  IF entries = <<>> THEN docs
  ELSE WriteEntries([docs EXCEPT ![entries[1].id] = <<entries[1].tag>>], Tail(entries))

\* update_document(entries, key, index, doctype): sets the tag of each keyed document
update_document(docs, entries) == WriteEntries(docs, entries)

\* add_document(entries, index, doctype): stores each entry as a document
add_document(docs, entries) == WriteEntries(docs, entries)

ApplyCall(docs, c) ==
  IF c.fn = "add_document" THEN add_document(docs, c.entries)
  ELSE update_document(docs, c.entries)

RECURSIVE ApplyCalls(_, _)
ApplyCalls(docs, cs) ==
  IF cs = <<>> THEN docs ELSE ApplyCalls(ApplyCall(docs, cs[1]), Tail(cs))

Entry(id, tag) == [id |-> id, tag |-> tag]

(***************************************************************************)
(* CrawlerModel.setPagesTag                                                *)
(***************************************************************************)
\* PagesAddEntry without the `tag not in` test
PagesAddEntryUnchecked(results, page, tag) ==
  IF DOMAIN results # {}
  THEN IF page \notin DOMAIN results THEN <<Entry(page, tag)>>
       ELSE <<Entry(page, results[page].tag \o <<Delim>> \o tag)>>
  ELSE <<Entry(page, tag)>>

\* the entry the applyTagFlag loop appends for one page (none: <<>>)
PagesAddEntry(results, page, tag) ==
  IF DOMAIN results # {}
  THEN IF page \notin DOMAIN results THEN <<Entry(page, tag)>>
       ELSE IF ~StrIn(tag, results[page].tag)
            THEN <<Entry(page, results[page].tag \o <<Delim>> \o tag)>>
            ELSE <<>>
  ELSE <<Entry(page, tag)>>

\* the removal loop reaches tags.remove(tag) for this page
PagesRemoveHits(results, page, tag) ==
  /\ DOMAIN results # {}
  /\ page \in DOMAIN results
  /\ StrIn(tag, results[page].tag)

\* tags.remove(tag) raises ValueError: tag is in the string, not in the list
PagesRemoveRaises(results, page, tag) ==
  /\ PagesRemoveHits(results, page, tag)
  /\ ~ListIn(tag, split(results[page].tag))

\* PagesRemoveEntry writing an empty tag string, whatever other labels are stored
PagesRemoveEntryDropAll(results, page, tag) ==
  IF PagesRemoveHits(results, page, tag) THEN <<Entry(page, EmptyStr)>> ELSE <<>>

PagesRemoveEntry(results, page, tag) ==
  IF PagesRemoveHits(results, page, tag)
  THEN <<Entry(page, join(ListRemove(split(results[page].tag), tag)))>>
  ELSE <<>>

RECURSIVE PagesEntries(_, _, _, _)
PagesEntries(results, pages, tag, applyTagFlag) ==
  IF pages = <<>> THEN <<>>
  ELSE (IF applyTagFlag THEN PagesAddEntry(results, pages[1], tag)
        ELSE PagesRemoveEntry(results, pages[1], tag))
       \o PagesEntries(results, Tail(pages), tag, applyTagFlag)

setPagesTagErr(pages, tag, applyTagFlag, results) ==
  IF get_documents_raises(pages) THEN "UnboundLocalError"
  ELSE IF /\ ~applyTagFlag
          /\ \E i \in 1..Len(pages) : PagesRemoveRaises(results, pages[i], tag)
       THEN "ValueError"
       ELSE "none"

\* the gateway writes of one setPagesTag call that raises nothing
setPagesTagCalls(pages, tag, applyTagFlag, results) ==
  <<[fn |-> "update_document", doctype |-> "page",
     entries |-> PagesEntries(results, pages, tag, applyTagFlag)]>>

setPagesTag(pages, tag, applyTagFlag) ==
  LET docs == store[activeCrawlerIndex].page
  IN /\ op' = [name |-> "setPagesTag", ids |-> pages, tag |-> tag, flag |-> applyTagFlag]
     /\ pre' = store
     /\ err' = setPagesTagErr(pages, tag, applyTagFlag, get_documents(pages, docs))
     /\ calls' = IF err' = "none"
                 THEN setPagesTagCalls(pages, tag, applyTagFlag, get_documents(pages, docs))
                 ELSE <<>>
     /\ store' = [store EXCEPT ![activeCrawlerIndex].page = ApplyCalls(docs, calls')]
     /\ ret' = NoRet
     /\ UNCHANGED <<session, requests>>

(***************************************************************************)
(* CrawlerModel.setTermsTag                                                *)
(***************************************************************************)
\* TermsAddEntry appending for terms that have a record too
TermsAddEntryAlways(results, term, tag) == <<Entry(term, tag)>>

\* what the applyTagFlag loop appends to add_entries for one term
TermsAddEntry(results, term, tag) ==
  IF DOMAIN results # {}
  THEN IF term \in DOMAIN results THEN <<>> ELSE <<Entry(term, tag)>>
  ELSE <<Entry(term, tag)>>

\* what the applyTagFlag loop appends to update_entries for one term
TermsUpdateEntry(results, term, tag) ==
  IF DOMAIN results # {} /\ term \in DOMAIN results /\ ~StrIn(tag, results[term].tag)
  THEN <<Entry(term, results[term].tag \o <<Delim>> \o tag)>>
  ELSE <<>>

RECURSIVE TermsAddEntries(_, _, _)
TermsAddEntries(results, terms, tag) ==
  IF terms = <<>> THEN <<>>
  ELSE TermsAddEntry(results, terms[1], tag) \o TermsAddEntries(results, Tail(terms), tag)

RECURSIVE TermsUpdateEntries(_, _, _)
TermsUpdateEntries(results, terms, tag) ==
  IF terms = <<>> THEN <<>>
  ELSE TermsUpdateEntry(results, terms[1], tag) \o TermsUpdateEntries(results, Tail(terms), tag)

\* the removal loop reaches `tags = tags.remove(tag)` for this term
TermsRemoveHits(results, term, tag) ==
  /\ DOMAIN results # {}
  /\ term \in DOMAIN results
  /\ StrIn(tag, results[term].tag)

\* the exception of the removal loop at one term that it hits: list.remove
\* raises ValueError when tag is not in the list, and otherwise returns None,
\* on which ';'.join raises TypeError
TermsRemoveErr(results, term, tag) ==
  IF ListIn(tag, split(results[term].tag)) THEN "TypeError" ELSE "ValueError"

setTermsTagErr(terms, tag, applyTagFlag, results) ==
  LET hits == {i \in 1..Len(terms) : TermsRemoveHits(results, terms[i], tag)}
  IN IF get_documents_raises(terms) THEN "UnboundLocalError"
     ELSE IF ~applyTagFlag /\ hits # {}
          THEN TermsRemoveErr(results, terms[CHOOSE i \in hits : \A j \in hits : i <= j], tag)
          ELSE "none"

\* setTermsTagCalls issuing update_document before add_document
setTermsTagCallsUpdateFirst(terms, tag, applyTagFlag, results) ==
  LET add_entries == IF applyTagFlag THEN TermsAddEntries(results, terms, tag) ELSE <<>>
    update_entries == IF applyTagFlag THEN TermsUpdateEntries(results, terms, tag) ELSE <<>>
  IN (IF update_entries # <<>>
      THEN <<[fn |-> "update_document", doctype |-> "terms", entries |-> update_entries]>>
      ELSE <<>>)
     \o
     (IF add_entries # <<>>
      THEN <<[fn |-> "add_document", doctype |-> "terms", entries |-> add_entries]>>
      ELSE <<>>)

\* the gateway writes of one setTermsTag call that raises nothing: the
\* removal loop appends an entry only past the statements that raise
setTermsTagCalls(terms, tag, applyTagFlag, results) ==
  LET add_entries == IF applyTagFlag THEN TermsAddEntries(results, terms, tag) ELSE <<>>
    update_entries == IF applyTagFlag THEN TermsUpdateEntries(results, terms, tag) ELSE <<>>
  IN (IF add_entries # <<>>
      THEN <<[fn |-> "add_document", doctype |-> "terms", entries |-> add_entries]>>
      ELSE <<>>)
     \o
     (IF update_entries # <<>>
      THEN <<[fn |-> "update_document", doctype |-> "terms", entries |-> update_entries]>>
      ELSE <<>>)

setTermsTag(terms, tag, applyTagFlag) ==
  LET docs == store[activeCrawlerIndex].terms
  IN /\ op' = [name |-> "setTermsTag", ids |-> terms, tag |-> tag, flag |-> applyTagFlag]
     /\ pre' = store
     /\ err' = setTermsTagErr(terms, tag, applyTagFlag, get_documents(terms, docs))
     /\ calls' = IF err' = "none"
                 THEN setTermsTagCalls(terms, tag, applyTagFlag, get_documents(terms, docs))
                 ELSE <<>>
     /\ store' = [store EXCEPT ![activeCrawlerIndex].terms = ApplyCalls(docs, calls')]
     /\ ret' = NoRet
     /\ UNCHANGED <<session, requests>>

(***************************************************************************)
(* Reading the history of the last operation                               *)
(***************************************************************************)
\* the tag list a reader builds from a field (getPages): [] for a missing
\* field, field.split(';') otherwise
decodeTags(field) == IF field = NoField THEN <<>> ELSE split(field[1])

IsTagOp(o) == o.name \in {"setPagesTag", "setTermsTag"}

DocType(o) == IF o.name = "setPagesTag" THEN "page" ELSE "terms"

\* the documents of the active index that operation o works on, in backend st
DocsOf(st, o) == st[activeCrawlerIndex][DocType(o)]

RECURSIVE EntriesOf(_, _)
EntriesOf(cs, fn) ==
  IF cs = <<>> THEN <<>>
  ELSE (IF cs[1].fn = fn THEN cs[1].entries ELSE <<>>) \o EntriesOf(Tail(cs), fn)

Creates == EntriesOf(calls, "add_document")
Updates == EntriesOf(calls, "update_document")

CreatesFor(id) == SelectSeq(Creates, LAMBDA e : e.id = id)
UpdatesFor(id) == SelectSeq(Updates, LAMBDA e : e.id = id)

HasRecord(st, o, id) == DocsOf(st, o)[id] # NoField

\* tag is one of the labels of the id's stored tag set
HasLabel(st, o, id, tag) == ListIn(tag, decodeTags(DocsOf(st, o)[id]))

(***************************************************************************)
(* C1: a first applyTag([id], X, add) on an id with a record lacking X     *)
(* emits exactly one update, old labels plus X, and no create; a second    *)
(* identical call emits nothing and leaves the store as it is.             *)
(***************************************************************************)
C1_FirstAdd ==
  (/\ IsTagOp(op) /\ op.flag /\ Len(op.ids) = 1
   /\ HasRecord(pre, op, op.ids[1])
   /\ ~HasLabel(pre, op, op.ids[1], op.tag))
  => /\ err = "none"
     /\ Creates = <<>>
     /\ Len(Updates) = 1
     /\ Updates[1].id = op.ids[1]
     /\ decodeTags(<<Updates[1].tag>>)
          = decodeTags(DocsOf(pre, op)[op.ids[1]]) \o <<op.tag>>

C1_SecondAdd ==
  (/\ IsTagOp(op) /\ op.flag /\ Len(op.ids) = 1
   /\ HasRecord(pre, op, op.ids[1])
   /\ ~HasLabel(pre, op, op.ids[1], op.tag)
   /\ op'.name = op.name /\ op'.flag /\ op'.tag = op.tag /\ op'.ids = op.ids)
  => /\ Creates' = <<>> /\ Updates' = <<>> /\ store' = store

C1_Idempotence == [](C1_FirstAdd) /\ [][C1_SecondAdd]_vars

(***************************************************************************)
(* C2: with add, an id that has a record gets an update adding the tag     *)
(* exactly when the tag is not an element of its stored tag set, and       *)
(* nothing when it is an element.                                          *)
(***************************************************************************)
C2_AddBySetMembership ==
  (IsTagOp(op) /\ op.flag /\ op.ids # <<>>)
  => /\ err = "none"
     /\ \A i \in 1..Len(op.ids) :
          LET id == op.ids[i]
              old == DocsOf(pre, op)[id]
          IN HasRecord(pre, op, id) =>
               IF HasLabel(pre, op, id, op.tag)
               THEN CreatesFor(id) = <<>> /\ UpdatesFor(id) = <<>>
               ELSE /\ UpdatesFor(id) # <<>>
                    /\ \A k \in 1..Len(UpdatesFor(id)) :
                         decodeTags(<<UpdatesFor(id)[k].tag>>)
                           = decodeTags(old) \o <<op.tag>>

(***************************************************************************)
(* C3: with remove, an id whose stored tag set contains the tag gets one   *)
(* update holding the old labels without the tag, in their order, and the  *)
(* call raises nothing; every other id gets nothing.                       *)
(***************************************************************************)
C3_Remove ==
  (IsTagOp(op) /\ ~op.flag /\ op.ids # <<>>)
  => \A i \in 1..Len(op.ids) :
       LET id == op.ids[i]
           old == decodeTags(DocsOf(pre, op)[id])
       IN IF HasLabel(pre, op, id, op.tag)
          THEN /\ err = "none"
               /\ CreatesFor(id) = <<>>
               /\ UpdatesFor(id) # <<>>
               /\ \A k \in 1..Len(UpdatesFor(id)) :
                    UpdatesFor(id)[k].tag = join(ListRemove(old, op.tag))
          ELSE CreatesFor(id) = <<>> /\ UpdatesFor(id) = <<>>

(***************************************************************************)
(* C4: tagging an id with a label it does not have and then untagging it   *)
(* brings the id's decoded tag set back to what it was.  A missing field   *)
(* and an empty one count as the same (empty) tag set here.                *)
(***************************************************************************)
\* the non-empty labels of a field, in order
Labelled(field) == SelectSeq(decodeTags(field), LAMBDA l : l # EmptyStr)

C4_Step ==
  (/\ IsTagOp(op) /\ op.flag /\ Len(op.ids) = 1
   /\ ~HasLabel(pre, op, op.ids[1], op.tag)
   /\ op'.name = op.name /\ ~op'.flag /\ op'.tag = op.tag /\ op'.ids = op.ids)
  => Labelled(DocsOf(store', op)[op.ids[1]]) = Labelled(DocsOf(pre, op)[op.ids[1]])

C4_TagUntagSymmetry == [][C4_Step]_vars

(***************************************************************************)
(* C5 as stated: with add, in tagPages and in tagTerms, an id without a    *)
(* stored record goes through the create call with tag set {tag} and not   *)
(* through the update call, an id with a record never goes through the     *)
(* create call, and no update call is issued before a create call.         *)
(***************************************************************************)
CreateBeforeUpdate ==
  \A i, j \in 1..Len(calls) :
    (calls[i].fn = "update_document" /\ calls[j].fn = "add_document") => j < i

CreatesForNew ==
  \A i \in 1..Len(op.ids) :
    IF HasRecord(pre, op, op.ids[i])
    THEN CreatesFor(op.ids[i]) = <<>>
    ELSE /\ ListIn(Entry(op.ids[i], op.tag), Creates)
         /\ UpdatesFor(op.ids[i]) = <<>>

C6_NoDuplicateLabels ==
  \A d \in Datasets : \A dt \in {"page", "terms"} : \A id \in DOMAIN store[d][dt] :
    NoDup(decodeTags(store[d][dt][id]))

\* an add whose batch repeats an id left that id with two labels
C6_RepeatedIdTagged ==
  /\ IsTagOp(op) /\ op.flag /\ err = "none"
  /\ Len(op.ids) = 2 /\ op.ids[1] = op.ids[2]
  /\ Len(UpdatesFor(op.ids[1])) = 2
  /\ Len(decodeTags(DocsOf(store, op)[op.ids[1]])) = 2

(***************************************************************************)
(* C7: the operations of one call never hold a create and an update for    *)
(* the same id, and never an operation whose labels are the stored labels. *)
(***************************************************************************)
C7_OutputShape ==
  IsTagOp(op) =>
    /\ \A i \in 1..Len(op.ids) :
         ~(CreatesFor(op.ids[i]) # <<>> /\ UpdatesFor(op.ids[i]) # <<>>)
    /\ \A k \in 1..Len(Creates \o Updates) :
         LET e == (Creates \o Updates)[k]
         IN Elems(decodeTags(<<e.tag>>)) # Elems(decodeTags(DocsOf(pre, op)[e.id]))

\* a removal that emitted an update
C7_RemovalEmitted ==
  /\ op.name = "setPagesTag" /\ ~op.flag /\ err = "none" /\ Updates # <<>>

(***************************************************************************)
(* C8: decoding the encoding of an ordered tag set gives the tag set back, *)
(* here for every tag list that a removal encodes with ';'.join.           *)
(***************************************************************************)
C8_RoundTrip ==
  (op.name = "setPagesTag" /\ ~op.flag /\ err = "none")
  => \A i \in 1..Len(op.ids) :
       LET results == get_documents(op.ids, DocsOf(pre, op))
       IN PagesRemoveHits(results, op.ids[i], op.tag) =>
            LET S == ListRemove(split(results[op.ids[i]].tag), op.tag)
            IN decodeTags(<<join(S)>>) = S

(***************************************************************************)
(* The page corpus and the external collaborators                          *)
(***************************************************************************)
\* the 'retrieved' field of a page, as seconds since the epoch
Retrieved == [u \in URLs |-> CHOOSE i \in 1..Len(PagesByRecency) :
                               PagesByRecency[Len(PagesByRecency) + 1 - i] = u]

\* the pages a filter text matches (query_string over the page text)
FilterTexts == {"ebola", "flu"}
FilterHits == [f \in FilterTexts |-> IF f = "ebola" THEN {"A", "B"} ELSE {}]
Matches(f, u) == IF f = None THEN TRUE ELSE u \in FilterHits[f]

\* the stored display coordinates of a page: none stored, read as 0
StoredX(u) == 0
StoredY(u) == 0

\* row i of the matrix the reduction returns
PcaRow(i) == <<10 + i, 20 + i>>

(***************************************************************************)
(* get_most_recent_documents and CrawlerModel.getPages                     *)
(***************************************************************************)
\* the first n elements of a sequence
Take(q, n) == SubSeq(q, 1, IF n < Len(q) THEN (IF n < 0 THEN 0 ELSE n) ELSE Len(q))

\* get_most_recent_documents: the matching pages, newest first, at most cap
get_most_recent_documents(cap, f) ==
  Take(SelectSeq(PagesByRecency, LAMBDA u : Matches(f, u)), cap)

\* es.search with a negative "size": the backend rejects the query
SearchRejects(cap) == cap < 0

\* the query of one get_most_recent_documents call, as the gateway sees it
SearchCall(cap, f, index) ==
  [fn |-> "get_most_recent_documents", doctype |-> "page", entries |-> <<>>,
   index |-> index, filter |-> f, size |-> cap]

\* the doc list getPages builds from the hits
PageDocs(hits, docs) ==
  [i \in 1..Len(hits) |->
     [url |-> hits[i], x |-> StoredX(hits[i]), y |-> StoredY(hits[i]),
      tags |-> decodeTags(docs[hits[i]]),
      retrieved |-> Retrieved[hits[i]]]]

\* pcaProjectPages: the first rows pages take their coordinates from the
\* reduced matrix, the others keep theirs
pcaProjectPages(pages, rows) ==
  [i \in 1..Len(pages) |->
     IF i <= rows THEN [pages[i] EXCEPT !.x = PcaRow(i)[1], !.y = PcaRow(i)[2]]
     ELSE pages[i]]

EmptyDict == [empty |-> TRUE]

\* [page[:4] for page in docs]: url, x, y and tags of each doc
PageTuples(pages) ==
  [i \in 1..Len(pages) |-> <<pages[i].url, pages[i].x, pages[i].y, pages[i].tags>>]

\* runPCASKLearn(data, 2) on a matrix of n rows: PCA(n_components = 2).fit
\* needs two samples.  On no row it raises ValueError; on one row it raises
\* ValueError, or returns rows of one column, on which pcadata[1][i][1]
\* raises IndexError
PcaErrors(n) ==
  IF n = 0 THEN {"ValueError"}
  ELSE IF n = 1 THEN {"ValueError", "IndexError"}
  ELSE {}

\* self.projectPages(docs), with the number of rows term_tfidf had for the urls
ProjectCall(n) == [fn |-> "projectPages", doctype |-> "page", entries |-> <<>>, rows |-> n]

\* how getPages may end for the docs it built: term_tfidf yields a matrix of
\* n rows for the urls, any n up to the number of docs, and the reduction
\* fills the coordinates of the first n pages
getPagesOutcomes(docs) ==
  IF Len(docs) > 0
  THEN {[err |-> "none", calls |-> <<ProjectCall(n)>>,
         ret |-> [last_downloaded_url_epoch |-> docs[1].retrieved,
                  pages |-> PageTuples(pcaProjectPages(docs, n))]] :
          n \in {k \in 0..Len(docs) : PcaErrors(k) = {}}}
       \cup
       UNION {{[err |-> e, calls |-> <<ProjectCall(n)>>, ret |-> NoRet] :
                 e \in PcaErrors(n)} : n \in 0..Len(docs)}
  ELSE {[err |-> "none", calls |-> <<>>, ret |-> EmptyDict]}

\* getPages once the search is through
getPagesEnds(out) ==
  /\ err' = out.err
  /\ calls' = <<SearchCall(pagesCap, filter, activeCrawlerIndex)>> \o out.calls
  /\ ret' = out.ret

getPages ==
  /\ op' = [name |-> "getPages", ids |-> <<>>, tag |-> EmptyStr, flag |-> FALSE]
  /\ pre' = store
  /\ IF SearchRejects(pagesCap)
     THEN /\ err' = "ElasticHttpError"
          /\ calls' = <<SearchCall(pagesCap, filter, activeCrawlerIndex)>>
          /\ ret' = NoRet
     ELSE \E out \in getPagesOutcomes(
                        PageDocs(get_most_recent_documents(pagesCap, filter),
                                 store[activeCrawlerIndex].page)) :
            getPagesEnds(out)
  /\ UNCHANGED <<store, session, requests>>

(***************************************************************************)
(* CrawlerModel.getTermSnippets                                            *)
(***************************************************************************)
\* iterating a Python string yields its one-character strings
Chars(term) == [i \in 1..Len(term) |-> <<term[i]>>]

\* get_documents is handed the term itself, not a list holding it
getTermSnippetsErr(term, tags) ==
  IF get_documents_raises(Chars(term)) THEN "UnboundLocalError"
  ELSE IF DOMAIN tags # {} /\ term \notin DOMAIN tags
       THEN "KeyError"
       ELSE "none"

getTermSnippetsTags(term, tags) ==
  IF DOMAIN tags # {} THEN split(tags[term].tag) ELSE <<>>

getTermSnippets(term) ==
  LET docs == store[activeCrawlerIndex].terms
  IN /\ op' = [name |-> "getTermSnippets", ids |-> <<term>>, tag |-> EmptyStr, flag |-> FALSE]
     /\ pre' = store
     /\ err' = getTermSnippetsErr(term, get_documents(Chars(term), docs))
     /\ calls' = <<>>
     /\ ret' = IF err' = "none"
               THEN [term |-> term,
                     tags |-> getTermSnippetsTags(term, get_documents(Chars(term), docs)),
                     context |-> "context"]
               ELSE NoRet
     /\ UNCHANGED <<store, session, requests>>

(***************************************************************************)
(* CrawlerModel.getTermsSummarySeedCrawler                                 *)
(***************************************************************************)
\* term_search('tag', [label], index, 'page'): the urls of the pages tagged label
term_search(label, docs) ==
  SelectSeq(PagesByRecency, LAMBDA u : ListIn(label, decodeTags(docs[u])))

\* get_all_ids(index, 'page'): the urls of all pages
get_all_ids == PagesByRecency

\* the term lists the ranking may return as top terms
TopTermsChoices == {<<>>, << <<"a">> >>, << <<"a">>, <<"a", "b">> >>}

\* tfidf_h.getTtf() over a url set: the total frequency of the terms it knows
getTtf(urls) == [t \in {<<"a">>} |-> Len(urls)]

\* { key: 0 if ttfs.get(key) is None else ttfs.get(key) for key in top_terms }
FreqOf(ttfs, term) == IF term \in DOMAIN ttfs THEN ttfs[term] ELSE 0

\* getTermsSummaryEntries taking the positive frequency from the ranking
\* also when no page is tagged Relevant
getTermsSummaryEntriesPosAlways(top_terms, pos_urls, pos_urls_found, neg_urls, tags) ==
  [i \in 1..Len(top_terms) |->
     <<top_terms[i],
       FreqOf(getTtf(pos_urls), top_terms[i]),
       IF Len(neg_urls) > 1 THEN FreqOf(getTtf(neg_urls), top_terms[i]) ELSE 0,
       IF top_terms[i] \in DOMAIN tags THEN split(tags[top_terms[i]].tag) ELSE <<>> >>]

getTermsSummaryEntries(top_terms, pos_urls, pos_urls_found, neg_urls, tags) ==
  [i \in 1..Len(top_terms) |->
     <<top_terms[i],
       IF pos_urls_found THEN FreqOf(getTtf(pos_urls), top_terms[i]) ELSE 0,
       IF Len(neg_urls) > 1 THEN FreqOf(getTtf(neg_urls), top_terms[i]) ELSE 0,
       IF top_terms[i] \in DOMAIN tags THEN split(tags[top_terms[i]].tag) ELSE <<>> >>]

\* tfidf.tfidf(pos_urls): the ranking is set up over the positive urls
RankCall == [fn |-> "tfidf", doctype |-> "page", entries |-> <<>>]

\* the body of getTermsSummarySeedCrawler once the Relevant pages are found
getTermsSummaryFrom(top_terms, found) ==
  LET pos_urls_found == Len(found) # 0
      pos_urls == IF pos_urls_found THEN found ELSE get_all_ids
      ranked == Len(pos_urls) > 1
  IN /\ (~ranked => top_terms = <<>>)
     /\ op' = [name |-> "getTermsSummarySeedCrawler", ids |-> top_terms,
               tag |-> EmptyStr, flag |-> ranked]
     /\ pre' = store
     /\ err' = IF ranked /\ get_documents_raises(top_terms)
               THEN "UnboundLocalError" ELSE "none"
     /\ calls' = IF ranked THEN <<RankCall>> ELSE <<>>
     /\ ret' = IF ~ranked THEN <<>>
               ELSE IF err' # "none" THEN NoRet
               ELSE getTermsSummaryEntries(
                      top_terms, pos_urls, pos_urls_found,
                      term_search(Irrelevant, store[activeCrawlerIndex].page),
                      get_documents(top_terms, store[activeCrawlerIndex].terms))
     /\ UNCHANGED <<store, session, requests>>

getTermsSummarySeedCrawler(top_terms) ==
  getTermsSummaryFrom(top_terms, term_search(Relevant, store[activeCrawlerIndex].page))

(***************************************************************************)
(* C9: a page or term whose stored tag field is missing or empty is        *)
(* reported with an empty tag list.                                        *)
(***************************************************************************)
EmptyField(field) == field = NoField \/ field = <<EmptyStr>>

C9_EmptyFieldNoLabels ==
  /\ (op.name = "getPages" /\ err = "none" /\ ret # EmptyDict)
       => \A i \in 1..Len(ret.pages) :
            EmptyField(store[activeCrawlerIndex].page[ret.pages[i][1]])
              => ret.pages[i][4] = <<>>
  /\ (op.name = "getTermSnippets" /\ err = "none")
       => (EmptyField(store[activeCrawlerIndex].terms[ret.term]) => ret.tags = <<>>)
  /\ (op.name = "getTermsSummarySeedCrawler" /\ err = "none")
       => \A i \in 1..Len(ret) :
            EmptyField(store[activeCrawlerIndex].terms[ret[i][1]]) => ret[i][4] = <<>>

(***************************************************************************)
(* CrawlerModel.getPagesSummarySeedCrawler                                 *)
(***************************************************************************)
\* the clock: time.mktime(time.localtime()) of the call, and the epoch times
\* a caller may pass; an omitted time is <<>>, a given one <<t>>
Now == 4
NoTime == <<>>
Times == {NoTime} \cup {<<t>> : t \in 0..Now}

\* opt_ts1 defaults to the epoch origin, opt_ts2 to now
Ts1(opt_ts1) == IF opt_ts1 = NoTime THEN 0 ELSE opt_ts1[1]
Ts2(opt_ts2) == IF opt_ts2 = NoTime THEN Now ELSE opt_ts2[1]

\* range('retrieved', ts1, ts2, ['url', 'tag'], True, index): the urls of the
\* pages retrieved within [ts1, ts2]; both branches on opt_applyFilter issue
\* this same query
range(ts1, ts2) ==
  SelectSeq(PagesByRecency, LAMBDA u : ts1 <= Retrieved[u] /\ Retrieved[u] <= ts2)

\* the bucket of one result: res['tag'] raises KeyError without a tag field,
\* and `'Relevant' in res['tag']` tests the stored string
Bucket(field) ==
  IF field = NoField THEN "Neutral"
  ELSE IF StrIn(Relevant, field[1]) THEN "Relevant"
  ELSE IF StrIn(Irrelevant, field[1]) THEN "Irrelevant"
  ELSE "Neutral"

RECURSIVE CountBucket(_, _, _)
CountBucket(results, docs, b) ==
  IF results = <<>> THEN 0
  ELSE (IF Bucket(docs[results[1]]) = b THEN 1 ELSE 0) + CountBucket(Tail(results), docs, b)

getPagesSummarySeedCrawler(opt_ts1, opt_ts2, opt_applyFilter) ==
  LET docs == store[activeCrawlerIndex].page
      results == range(Ts1(opt_ts1), Ts2(opt_ts2))
  IN /\ op' = [name |-> "getPagesSummarySeedCrawler", ids |-> <<>>, tag |-> EmptyStr,
               flag |-> opt_applyFilter, ts1 |-> opt_ts1, ts2 |-> opt_ts2]
     /\ pre' = store
     /\ err' = "none"
     /\ calls' = <<>>
     /\ ret' = [Relevant |-> CountBucket(results, docs, "Relevant"),
                Irrelevant |-> CountBucket(results, docs, "Irrelevant"),
                Neutral |-> CountBucket(results, docs, "Neutral")]
     /\ UNCHANGED <<store, session, requests>>

\* the tag fields the pages of a dataset hold when a summary is asked for
SummaryFields ==
  {NoField, <<Relevant>>, <<Irrelevant>>, <<Irrelevant \o <<Delim>> \o Relevant>>,
   <<NotRelevant>>, <<Rel>>}

InitSummary ==
  /\ activeCrawlerIndex = "d1"
  /\ filter = None
  /\ pagesCap = 1000
  /\ \E pageDocs \in [URLs -> SummaryFields] :
       store = [d \in Datasets |->
                  [page |-> IF d = "d1" THEN pageDocs ELSE [u \in URLs |-> NoField],
                   terms |-> [t \in TermIds |-> NoField]]]
  /\ op = [name |-> "init", ids |-> <<>>, tag |-> EmptyStr, flag |-> FALSE]
  /\ pre = store
  /\ calls = <<>>
  /\ err = "none"
  /\ ret = NoRet
  /\ requests = [t \in Threads |-> Idle]

PagesSummary ==
  \E opt_ts1 \in Times, opt_ts2 \in Times, opt_applyFilter \in BOOLEAN :
    getPagesSummarySeedCrawler(opt_ts1, opt_ts2, opt_applyFilter)

NextSummary == PagesSummary

SpecSummary == InitSummary /\ [][NextSummary]_vars

(***************************************************************************)
(* C10: the summary counts every page of the window in exactly one bucket: *)
(* Relevant when its tag set contains Relevant (also next to Irrelevant),  *)
(* Neutral when it contains neither label or the page has no tag field.    *)
(***************************************************************************)
InWindow == range(Ts1(op.ts1), Ts2(op.ts2))

TagSetOf(u) == Elems(decodeTags(store[activeCrawlerIndex].page[u]))

C10_Buckets ==
  op.name = "getPagesSummarySeedCrawler" =>
    /\ ret.Relevant + ret.Irrelevant + ret.Neutral = Len(InWindow)
    /\ ret.Relevant = Len(SelectSeq(InWindow, LAMBDA u : Relevant \in TagSetOf(u)))
    /\ ret.Neutral = Len(SelectSeq(InWindow, LAMBDA u :
                           Relevant \notin TagSetOf(u) /\ Irrelevant \notin TagSetOf(u)))

\* the scenario: A untagged, B Relevant, C Irrelevant;Relevant, full time range
C10_Scenario ==
  (/\ op.name = "getPagesSummarySeedCrawler"
   /\ op.ts1 = NoTime /\ op.ts2 = NoTime
   /\ store[activeCrawlerIndex].page =
        [u \in URLs |-> IF u = "A" THEN NoField
                        ELSE IF u = "B" THEN <<Relevant>>
                        ELSE <<Irrelevant \o <<Delim>> \o Relevant>>])
  => ret = [Relevant |-> 2, Irrelevant |-> 0, Neutral |-> 1]

(***************************************************************************)
(* The session setters                                                     *)
(***************************************************************************)
\* what a client may pass to applyFilter: None, '' or a filter text
NoText == ""
FilterArgs == {None, NoText} \cup FilterTexts

\* what a client may pass to setPagesCountCap
PageCaps == {-1, 0, 1, 2, 1000}

\* the operation record of a setter: `was` is the session it was called in
SetterOp(name, arg) ==
  [name |-> name, ids |-> <<arg>>, tag |-> EmptyStr, flag |-> FALSE,
   was |-> [activeCrawlerIndex |-> activeCrawlerIndex, filter |-> filter,
            pagesCap |-> pagesCap]]

\* setActiveCrawler without `self._filter = None`
setActiveCrawlerKeepFilter(crawlerId) ==
  /\ op' = SetterOp("setActiveCrawler", crawlerId)
  /\ pre' = store
  /\ err' = "none"
  /\ calls' = <<>>
  /\ ret' = NoRet
  /\ activeCrawlerIndex' = crawlerId
  /\ UNCHANGED <<filter, pagesCap, store, requests>>

setActiveCrawler(crawlerId) ==
  /\ op' = SetterOp("setActiveCrawler", crawlerId)
  /\ pre' = store
  /\ err' = "none"
  /\ calls' = <<>>
  /\ ret' = NoRet
  /\ activeCrawlerIndex' = crawlerId
  /\ filter' = None
  /\ UNCHANGED <<pagesCap, store, requests>>

\* applyFilter without the `if terms:` test
applyFilterAlways(terms) ==
  /\ op' = SetterOp("applyFilter", terms)
  /\ pre' = store
  /\ err' = "none"
  /\ calls' = <<>>
  /\ ret' = NoRet
  /\ filter' = IF terms = NoText THEN None ELSE terms
  /\ UNCHANGED <<activeCrawlerIndex, pagesCap, store, requests>>

\* `if terms:` is false for None and for ''
applyFilter(terms) ==
  /\ op' = SetterOp("applyFilter", terms)
  /\ pre' = store
  /\ err' = "none"
  /\ calls' = <<>>
  /\ ret' = NoRet
  /\ filter' = IF terms # None /\ terms # NoText THEN terms ELSE filter
  /\ UNCHANGED <<activeCrawlerIndex, pagesCap, store, requests>>

\* self._pagesCap = int(pagesCap)
setPagesCountCap(cap) ==
  /\ op' = SetterOp("setPagesCountCap", cap)
  /\ pre' = store
  /\ err' = "none"
  /\ calls' = <<>>
  /\ ret' = NoRet
  /\ pagesCap' = cap
  /\ UNCHANGED <<activeCrawlerIndex, filter, store, requests>>

\* the session as __init__ leaves it (no filter, page cap int(10E2)), with
\* dataset d1 selected: the constructor leaves the index None, and no handler
\* reaches a dataset before a client has selected one
Init ==
  /\ activeCrawlerIndex = "d1"
  /\ filter = None
  /\ pagesCap = 1000
  /\ store = [d \in Datasets |-> [page |-> [u \in URLs |-> NoField],
                                  terms |-> [t \in TermIds |-> NoField]]]
  /\ op = [name |-> "init", ids |-> <<>>, tag |-> EmptyStr, flag |-> FALSE]
  /\ pre = store
  /\ calls = <<>>
  /\ err = "none"
  /\ ret = NoRet
  /\ requests = [t \in Threads |-> Idle]

TagPages ==
  \E pages \in Batches(URLSeq), tag \in Labels, flag \in BOOLEAN :
    setPagesTag(pages, tag, flag)

TagTerms ==
  \E terms \in Batches(TermSeq), tag \in Labels, flag \in BOOLEAN :
    setTermsTag(terms, tag, flag)

TermSnippets == \E term \in TermIds : getTermSnippets(term)

TermsSummary == \E top_terms \in TopTermsChoices : getTermsSummarySeedCrawler(top_terms)

Next == TagPages \/ TagTerms \/ getPages \/ TermSnippets \/ TermsSummary

Spec == Init /\ [][Next]_vars

(***************************************************************************)
(* A session that also moves between datasets, filters and page caps       *)
(***************************************************************************)
SetActiveCrawler == \E crawlerId \in Datasets : setActiveCrawler(crawlerId)

ApplyFilter == \E terms \in FilterArgs : applyFilter(terms)

SetPagesCountCap == \E cap \in PageCaps : setPagesCountCap(cap)

\* the page tagging of such a session: page A, label Relevant
SessionTagPages == \E flag \in BOOLEAN : setPagesTag(<<"A">>, Relevant, flag)

\* the summaries of such a session: the whole time range or the window [2, 3]
SessionSummary ==
  \E ts \in {<<NoTime, NoTime>>, << <<2>>, <<3>> >>}, opt_applyFilter \in BOOLEAN :
    getPagesSummarySeedCrawler(ts[1], ts[2], opt_applyFilter)

NextSession ==
  \/ SetActiveCrawler
  \/ ApplyFilter
  \/ SetPagesCountCap
  \/ SessionTagPages
  \/ getPages
  \/ SessionSummary

SpecSession == Init /\ [][NextSession]_vars

(***************************************************************************)
(* C11: a summary asked with applyFilter = true while a filter is set      *)
(* counts only the pages of [t1, t2] that match the filter; asked with     *)
(* applyFilter = false it counts all pages of [t1, t2].                    *)
(***************************************************************************)
C11_FilteredSummary ==
  op.name = "getPagesSummarySeedCrawler" =>
    ret.Relevant + ret.Irrelevant + ret.Neutral =
      IF op.flag /\ filter # None
      THEN Len(SelectSeq(InWindow, LAMBDA u : Matches(filter, u)))
      ELSE Len(InWindow)

(***************************************************************************)
(* C12: applyFilter with an empty or absent text leaves the filter as it   *)
(* was, applyFilter with a non-empty text sets the filter to that text,    *)
(* and a filter that is set becomes absent only by setActiveCrawler.       *)
(***************************************************************************)
C12_Step ==
  /\ op'.name = "applyFilter" =>
       filter' = IF op'.ids[1] \in {None, NoText} THEN filter ELSE op'.ids[1]
  /\ (filter # None /\ filter' = None) => op'.name = "setActiveCrawler"

C12_FilterAsymmetry == [][C12_Step]_vars

\* applyFilter('') was called while a filter was set, and the filter is kept
C12_EmptyKeepsFilter ==
  /\ op.name = "applyFilter"
  /\ op.ids[1] = NoText
  /\ op.was.filter \in FilterTexts
  /\ filter = op.was.filter

(***************************************************************************)
(* C13: setActiveCrawler(id) makes id the active dataset and clears the    *)
(* filter, whatever the session was, and leaves the page cap and every     *)
(* stored page and term as they were; the getPages that follows it         *)
(* searches the new dataset with no filter.                                *)
(***************************************************************************)
C13_Step ==
  /\ op'.name = "setActiveCrawler" =>
       /\ activeCrawlerIndex' = op'.ids[1]
       /\ filter' = None
       /\ pagesCap' = pagesCap
       /\ store' = store
  /\ (op.name = "setActiveCrawler" /\ op'.name = "getPages") =>
       /\ calls'[1].fn = "get_most_recent_documents"
       /\ calls'[1].index = op.ids[1]
       /\ calls'[1].filter = None
       /\ (err' = "none" /\ ret' # EmptyDict) =>
            \A i \in 1..Len(ret'.pages) :
              ret'.pages[i][4] = decodeTags(store[op.ids[1]].page[ret'.pages[i][1]])

C13_SwitchDataset == [][C13_Step]_vars

\* a switch to another dataset, made with a filter set, a page cap chosen
\* and a tagged page in the store
C13_SwitchedWithFilterSet ==
  /\ op.name = "setActiveCrawler"
  /\ op.was.activeCrawlerIndex # op.ids[1]
  /\ op.was.filter \in FilterTexts
  /\ op.was.pagesCap = 2
  /\ store[op.was.activeCrawlerIndex].page["A"] = <<Relevant>>
  /\ activeCrawlerIndex = op.ids[1]
  /\ filter = None

(***************************************************************************)
(* C14: setPagesCountCap(n) with n <= 0 is rejected and leaves the page    *)
(* cap as it was, so the page cap is a positive integer in every state.    *)
(***************************************************************************)
C14_PageCapValid ==
  /\ pagesCap > 0
  /\ (op.name = "setPagesCountCap" /\ op.ids[1] <= 0) =>
       (err # "none" /\ pagesCap = op.was.pagesCap)

(***************************************************************************)
(* C15: getPages returns at most pagesCap pages, the most recent pages of  *)
(* the active dataset that match the filter, most recent first, each as    *)
(* [url, x, y, tags], with the retrieval time of the first page; when no   *)
(* page matches it returns an empty result without invoking the            *)
(* projection or the term ranking.                                         *)
(***************************************************************************)
\* the urls of the pages a getPages call returned
ReturnedUrls ==
  IF ret = EmptyDict THEN <<>> ELSE [i \in 1..Len(ret.pages) |-> ret.pages[i][1]]

C15_Result ==
  /\ Len(ReturnedUrls) <= pagesCap
  /\ \A i \in 1..Len(ReturnedUrls) : Matches(filter, ReturnedUrls[i])
  /\ \A i, j \in 1..Len(ReturnedUrls) :
       i < j => Retrieved[ReturnedUrls[i]] > Retrieved[ReturnedUrls[j]]
  /\ \A u \in URLs :
       (Matches(filter, u) /\ u \notin Elems(ReturnedUrls)) =>
         /\ Len(ReturnedUrls) = pagesCap
         /\ \A i \in 1..Len(ReturnedUrls) : Retrieved[ReturnedUrls[i]] > Retrieved[u]
  /\ ret # EmptyDict =>
       /\ ret.last_downloaded_url_epoch = Retrieved[ReturnedUrls[1]]
       /\ \A i \in 1..Len(ret.pages) : Len(ret.pages[i]) = 4
  /\ (\A u \in URLs : ~Matches(filter, u)) =>
       /\ ret = EmptyDict
       /\ \A k \in 1..Len(calls) : calls[k].fn \notin {"projectPages", "tfidf"}

C15_ListPagesResult ==
  op.name = "getPages" => (err = "none" /\ C15_Result)

\* the result is as described whenever getPages returns one
C15_ResultWhenReturned ==
  (op.name = "getPages" /\ err = "none") => C15_Result

(***************************************************************************)
(* C16: the projection returns the same pages in the same order with url   *)
(* and tags unchanged; page i takes x and y from columns 0 and 1 of row i  *)
(* of the reduced matrix when there is such a row and keeps its x and y    *)
(* otherwise; fewer than 2 pages or an empty matrix do not fail the call.  *)
(***************************************************************************)
\* the projection was invoked by the last operation
Projected == op.name = "getPages" /\ Len(calls) = 2 /\ calls[2].fn = "projectPages"

C16_Assignment ==
  LET hits == get_most_recent_documents(pagesCap, filter)
  IN /\ Len(ret.pages) = Len(hits)
     /\ \A i \in 1..Len(hits) :
          /\ ret.pages[i][1] = hits[i]
          /\ ret.pages[i][4] = decodeTags(store[activeCrawlerIndex].page[hits[i]])
          /\ IF i <= calls[2].rows
             THEN ret.pages[i][2] = PcaRow(i)[1] /\ ret.pages[i][3] = PcaRow(i)[2]
             ELSE ret.pages[i][2] = StoredX(hits[i]) /\ ret.pages[i][3] = StoredY(hits[i])

C16_Projection == Projected => (err = "none" /\ C16_Assignment)

\* the assignment is as described whenever the reduction raises nothing
C16_AssignmentWhenReduced == (Projected /\ err = "none") => C16_Assignment

(***************************************************************************)
(* C17: getTermsSummarySeedCrawler returns an empty list and sets up no    *)
(* ranking whenever the positive url set has fewer than 2 elements, the    *)
(* positive set being the urls tagged Relevant, or all urls when none is;  *)
(* in that second case every entry returned has positive frequency 0.      *)
(***************************************************************************)
RelevantUrls == {u \in URLs : Relevant \in TagSetOf(u)}

PositiveUrls == IF RelevantUrls = {} THEN URLs ELSE RelevantUrls

NoRecordInBatch == \A i \in 1..Len(op.ids) : ~HasRecord(pre, op, op.ids[i])

C18_NoLocalErrors ==
  IsTagOp(op) =>
    /\ err = "none"
    /\ NoRecordInBatch =>
         IF op.flag
         THEN /\ Len(Creates) = Len(op.ids)
              /\ \A i \in 1..Len(op.ids) : ListIn(Entry(op.ids[i], op.tag), Creates)
         ELSE Creates \o Updates = <<>>

(***************************************************************************)
(* C19: getTermSnippets(term) returns the decoded tags of the record of    *)
(* the whole term when there is one and an empty tag list when there is    *)
(* none, never the tags of another term and never a missing-key error.     *)
(***************************************************************************)
C19_TermContext ==
  op.name = "getTermSnippets" =>
    /\ err = "none"
    /\ ret.tags = decodeTags(store[activeCrawlerIndex].terms[op.ids[1]])

(***************************************************************************)
(* C20: a setPagesTag / setTermsTag call for ids I and tag T changes the   *)
(* stored tags of no page or term outside I, keeps, for each id of I,      *)
(* every label other than T in its order, and leaves the active dataset,   *)
(* the filter and the page cap as they were.                               *)
(***************************************************************************)
\* the labels of a field other than tag, in order
OtherLabels(field, tag) == SelectSeq(Labelled(field), LAMBDA l : l # tag)

C20_StoreFrame ==
  IsTagOp(op) =>
    /\ \A d \in Datasets : \A dt \in {"page", "terms"} : \A id \in DOMAIN store[d][dt] :
         (d # activeCrawlerIndex \/ dt # DocType(op) \/ id \notin Elems(op.ids))
           => store[d][dt][id] = pre[d][dt][id]
    /\ \A i \in 1..Len(op.ids) :
         OtherLabels(DocsOf(store, op)[op.ids[i]], op.tag)
           = OtherLabels(DocsOf(pre, op)[op.ids[i]], op.tag)

C20_SessionStep == IsTagOp(op') => UNCHANGED session

C20_TagFrame == [](C20_StoreFrame) /\ [][C20_SessionStep]_vars

\* a removal from a page that holds two labels kept the other label
C20_OtherLabelKept ==
  /\ op.name = "setPagesTag" /\ ~op.flag /\ err = "none"
  /\ \E i \in 1..Len(op.ids) :
       /\ Len(decodeTags(DocsOf(pre, op)[op.ids[i]])) = 2
       /\ Len(decodeTags(DocsOf(store, op)[op.ids[i]])) = 1
       /\ OtherLabels(DocsOf(store, op)[op.ids[i]], op.tag) # <<>>

(***************************************************************************)
(* Tag calls of several threads on one session: a call reads the stored    *)
(* tags with get_documents, builds its entries, and then issues its        *)
(* gateway writes; nothing in CrawlerModel keeps other calls out between   *)
(* these statements, and each statement reads self._activeCrawlerIndex.    *)
(***************************************************************************)
ConcurrentLabels == {Relevant, Irrelevant}

\* the tag calls a thread may run
ConcurrentCalls ==
  {[name |-> "setPagesTag", ids |-> ids, tag |-> tag, flag |-> flag] :
     ids \in {<<"A">>, <<"A", "B">>}, tag \in ConcurrentLabels, flag \in BOOLEAN}
  \cup
  {[name |-> "setTermsTag", ids |-> << <<"a">> >>, tag |-> tag, flag |-> flag] :
     tag \in ConcurrentLabels, flag \in BOOLEAN}

\* the exception call c raises once get_documents has returned results
TagCallErr(c, results) ==
  IF c.name = "setPagesTag" THEN setPagesTagErr(c.ids, c.tag, c.flag, results)
  ELSE setTermsTagErr(c.ids, c.tag, c.flag, results)

\* the gateway writes call c goes on to issue, in order
TagCallWrites(c, results) ==
  IF TagCallErr(c, results) # "none" THEN <<>>
  ELSE IF c.name = "setPagesTag" THEN setPagesTagCalls(c.ids, c.tag, c.flag, results)
  ELSE setTermsTagCalls(c.ids, c.tag, c.flag, results)

\* a call past its get_documents, which it ran on dataset index
AfterRead(c, index, err_, pending) ==
  [pc |-> IF pending = <<>> THEN "done" ELSE "write",
   call |-> c, readIndex |-> index, err |-> err_, pending |-> pending, wrote |-> <<>>]

\* the first statement of a tag call: get_documents on self._activeCrawlerIndex
ReadTags(t, c, results) ==
  /\ requests[t].pc = "idle"
  /\ requests' = [requests EXCEPT
                    ![t] = AfterRead(c, activeCrawlerIndex, TagCallErr(c, results),
                                     TagCallWrites(c, results))]
  /\ UNCHANGED <<session, store, op, pre, calls, err, ret>>

\* the next gateway write of a tag call, on self._activeCrawlerIndex as it is now
WriteTags(t) ==
  /\ requests[t].pc = "write"
  /\ store' = [store EXCEPT ![activeCrawlerIndex][requests[t].pending[1].doctype] =
                              ApplyCall(@, requests[t].pending[1])]
  /\ requests' = [requests EXCEPT
                    ![t] = [requests[t] EXCEPT
                              !.pc = IF Len(requests[t].pending) = 1 THEN "done" ELSE "write",
                              !.pending = Tail(@),
                              !.wrote = Append(@, activeCrawlerIndex)]]
  /\ UNCHANGED <<session, op, pre, calls, err, ret>>

ReadStep ==
  \E t \in Threads, c \in ConcurrentCalls :
    ReadTags(t, c, get_documents(c.ids, store[activeCrawlerIndex][DocType(c)]))

WriteStep == \E t \in Threads : WriteTags(t)

NextConcurrent == ReadStep \/ WriteStep \/ SetActiveCrawler

SpecConcurrent == Init /\ [][NextConcurrent]_vars

(***************************************************************************)
(* C21: when two adds of one kind for the same id with different tags T1   *)
(* and T2 run side by side on one session, the id's stored tags hold both  *)
(* T1 and T2 once both calls have finished, whatever the interleaving of   *)
(* their reads and writes.                                                 *)
(***************************************************************************)
\* call t has finished without an exception, having read and written dataset d only
FinishedOn(t, d) ==
  /\ requests[t].pc = "done"
  /\ requests[t].err = "none"
  /\ requests[t].readIndex = d
  /\ \A k \in 1..Len(requests[t].wrote) : requests[t].wrote[k] = d

C21_NoLostTag ==
  \A d \in Datasets :
    (/\ FinishedOn("t1", d) /\ FinishedOn("t2", d)
     /\ requests["t1"].call.flag /\ requests["t2"].call.flag
     /\ requests["t1"].call.name = requests["t2"].call.name
     /\ requests["t1"].call.tag # requests["t2"].call.tag)
    => \A id \in Elems(requests["t1"].call.ids) \cap Elems(requests["t2"].call.ids) :
         {requests["t1"].call.tag, requests["t2"].call.tag}
           \subseteq Elems(decodeTags(store[d][DocType(requests["t1"].call)][id]))

(***************************************************************************)
(* C22: within one setPagesTag / setTermsTag call, the dataset the stored  *)
(* tags are read from and the dataset the creates and updates are written  *)
(* to are the same, also when setActiveCrawler runs between the read and   *)
(* the write.                                                              *)
(***************************************************************************)
C22_SameDataset ==
  \A t \in Threads :
    requests[t].pc # "idle" =>
      \A k \in 1..Len(requests[t].wrote) : requests[t].wrote[k] = requests[t].readIndex

====
